---- MODULE Spec2Model ----
(***************************************************************************)
(* Price-Alert (app.py): a background thread sweeps every tracked product  *)
(* (scrape, compare, notify, save) while Flask request handlers add and    *)
(* delete products.  All of them read and rewrite the whole products.json  *)
(* file; nothing serialises the read-modify-write cycles.                  *)
(***************************************************************************)
EXTENDS Integers, Sequences, FiniteSets, TLC

\* ---------------------------------------------------------------- bounds
MaxPrice == 1       \* observed prices range over 0..MaxPrice
MaxIds   == 1       \* number of uuid4 values handed out in one behaviour

\* ------------------------------------------------------------- constants
None    == -1                       \* Python's None, for a price
NoName  == "<None>"                 \* Python's None, for a product name
NoStamp == "<None>"                 \* Python's None, for last_check
Stamp   == "%Y-%m-%d %H:%M:%S"      \* the text strftime returns; the program
                                    \* stores it and never reads it back
Unknown == "Unknown Product"        \* placeholder of scrape_product_details

Prices   == 0..MaxPrice
Names    == {"Widget"}              \* text of a page's productTitle
Handlers == {"h1", "h2"}            \* request threads of the Flask server
Alongside == {"h1"}                 \* those serving requests during sweeps
Ids      == 1..(MaxIds + 1)
DelIds   == 1..(MaxIds + 1)         \* ids a delete request may carry

VARIABLES
    file,       \* products.json: [ok |-> parseable?, data |-> the list in it]
    persisted,  \* the last complete list written to products.json
    sweep,      \* the background thread of update_all_products; skipped holds
                \* <<index, record as loaded>> of the products whose scrape
                \* gave no price, step the last iteration of the for loop
    hs,         \* the request threads: add_product / delete_product
    nextId,     \* how many uuid4 values have been generated
    seen,       \* per id: the price of its last successful scrape
    track,      \* whether the history variables are being recorded
    deleted,    \* ids whose delete_product request has completed
    least,      \* per id: the lowest price any scrape of it returned
    limit       \* how many uuid4 values this behaviour may draw

vars == <<file, persisted, sweep, hs, nextId, seen, track, deleted, least, limit>>

\* ---------------------------------------------------------------- helpers
IdsOf(s) == {s[i].id : i \in 1..Len(s)}

\* load_products: the parsed list, or [] on a missing or undecodable file
load_products(f) == IF f.ok THEN f.data ELSE <<>>

\* open(PRICE_DATA_FILE, "w"): the file is truncated before anything is written
Truncated == [ok |-> FALSE, data |-> <<>>]

\* WriteOutcomes that keeps the records another writer saved meanwhile
WriteOutcomesMerge(f, products) ==
    LET K[i \in 0..Len(f.data)] ==
            IF i = 0 THEN products
            ELSE IF f.data[i].id \in IdsOf(products) THEN K[i - 1]
                 ELSE Append(K[i - 1], f.data[i])
    IN  {[ok |-> TRUE, data |-> IF f.ok THEN K[Len(f.data)] ELSE products]}

\* json.dump + close: the bytes land at offset 0 of whatever the file holds
\* now.  After this writer's truncation the file is either still empty or
\* holds what another writer put there since; a longer text keeps its tail
\* behind the shorter one written over it and no longer parses.
WriteOutcomes(f, products) ==
    LET mine == [ok |-> TRUE, data |-> products]
        torn == [ok |-> FALSE, data |-> <<>>]
    IN  IF ~f.ok \/ f.data = products THEN {mine}
        ELSE IF Len(f.data) > Len(products) THEN {torn}
        ELSE IF Len(f.data) = Len(products) THEN {mine, torn}
        ELSE {mine}

\* scrape_product_details: (price, name)
ScrapeOutcomes ==
    {<<None, NoName>>}                              \* request error, captcha
        \cup {<<None, n>> : n \in Names \cup {Unknown}}   \* no usable price
        \cup {<<p, n>> : p \in Prices, n \in Names}

\* what happens to one requests.post of send_telegram
TelegramOutcomes == {"sent", "failed", "nocreds"}

\* send_telegram without the except clause of lines 51-52
send_telegramUncaught(outcome) ==
    IF outcome = "failed" THEN "raised" ELSE "returned"

\* send_telegram, lines 43-52: returns early without credentials, catches
\* RequestException (transport error, timeout, HTTP error status)
send_telegram(outcome) == "returned"

\* what the caller's thread records of a send_telegram call
Delivery(outcome) == IF outcome = "sent" THEN "sent" ELSE "unsent"

\* the truth value Python gives a price in `if price`
Truthy(price) == price # None /\ price # 0

\* ------------------------------------------------------------------ state
NoStep == [id |-> 0, old |-> None, new |-> None, low |-> None,
           seen |-> None, notified |-> FALSE, tg |-> "none"]

IdleSweep ==
    [pc |-> "load", products |-> <<>>, idx |-> 1, skipped |-> {},
     torn |-> FALSE, step |-> NoStep, loads |-> 0, saves |-> 0,
     loaded |-> <<>>, obs |-> <<>>]

IdleHandler ==
    [pc |-> "idle", op |-> "none", url |-> "", product_id |-> 0,
     price |-> None, new_product |-> <<>>, loaded |-> <<>>,
     products |-> <<>>, torn |-> FALSE, saved |-> FALSE, notified |-> FALSE,
     tg |-> "none"]

Start ==
    /\ file = [ok |-> TRUE, data |-> <<>>]
    /\ persisted = <<>>
    /\ sweep \in {IdleSweep, [IdleSweep EXCEPT !.pc = "off"]}
    /\ hs = [h \in Handlers |-> IdleHandler]
    /\ nextId = 0
    /\ seen = [i \in Ids |-> None]
    /\ deleted = {}
    /\ least = [i \in Ids |-> None]

\* line 175: run as __main__, the sweep thread is started
Init == Start /\ sweep.pc = "load" /\ track = FALSE /\ limit = MaxIds

\* the same program, with the history variables recorded
InitTracked == Start /\ sweep.pc = "load" /\ track = TRUE /\ limit = MaxIds

\* the same again, with one more product added
InitSeq == Start /\ sweep.pc = "load" /\ track = TRUE /\ limit = MaxIds + 1

\* line 174: the module served without being __main__ (flask run, a WSGI
\* server): only the routes exist, no sweep thread is started
InitRequests == Start /\ sweep.pc = "off" /\ track = FALSE /\ limit = MaxIds + 1

\* ---------------------------------------------- update_all_products
\* line 98: products = load_products()
SweepLoad ==
    /\ sweep.pc = "load"
    /\ LET products == load_products(file)
       IN  sweep' = [pc |-> IF Len(products) = 0 THEN "save" ELSE "scan",
                     products |-> products, idx |-> 1, skipped |-> {},
                     torn |-> ~file.ok, step |-> NoStep,
                     loads |-> sweep.loads + 1, saves |-> sweep.saves,
                     loaded |-> IF track THEN products ELSE <<>>,
                     obs |-> <<>>]
    /\ UNCHANGED <<file, persisted, hs, nextId, seen, track, deleted, least, limit>>

\* lines 112: the condition under which send_telegram is called
DropAlert(old_price, final_price) ==
    old_price # None /\ final_price < old_price

\* UpdateProduct with the alert sent on every new low, first price included
UpdateProductAlertOnLow(product, final_price, product_name) ==
    IF final_price = None
    THEN [product |-> product, notified |-> FALSE]
    ELSE LET current_lowest == product.lowest_price
             newlow == current_lowest = None \/ final_price < current_lowest
         IN  [product |->
                  [product EXCEPT !.product_name = product_name,
                                  !.current_price = final_price,
                                  !.last_check = Stamp,
                                  !.lowest_price =
                                      IF newlow THEN final_price ELSE @],
              notified |-> newlow]

\* UpdateProduct with the drop test of line 112 outside the test of line 109
UpdateProductUnnested(product, final_price, product_name) ==
    IF final_price = None
    THEN [product |-> product, notified |-> FALSE]
    ELSE LET old_price == product.current_price
             current_lowest == product.lowest_price
             newlow == current_lowest = None \/ final_price < current_lowest
         IN  [product |->
                  [product EXCEPT !.product_name = product_name,
                                  !.current_price = final_price,
                                  !.last_check = Stamp,
                                  !.lowest_price =
                                      IF newlow THEN final_price ELSE @],
              notified |-> DropAlert(old_price, final_price)]

\* UpdateProduct with a failed scrape recorded as "no price"
UpdateProductOverwrite(product, final_price, product_name) ==
    LET old_price == product.current_price
        current_lowest == product.lowest_price
        newlow == final_price # None
                     /\ (current_lowest = None \/ final_price < current_lowest)
    IN  [product |->
             [product EXCEPT !.current_price = final_price,
                             !.lowest_price = IF newlow THEN final_price ELSE @],
         notified |-> newlow /\ DropAlert(old_price, final_price)]

\* lines 101-119: one product of the for loop, given what the scrape returned
UpdateProduct(product, final_price, product_name) ==
    IF final_price = None
    THEN [product |-> product, notified |-> FALSE]
    ELSE LET old_price == product.current_price
             current_lowest == product.lowest_price
             newlow == current_lowest = None \/ final_price < current_lowest
         IN  [product |->
                  [product EXCEPT !.product_name = product_name,
                                  !.current_price = final_price,
                                  !.last_check = Stamp,
                                  !.lowest_price =
                                      IF newlow THEN final_price ELSE @],
              notified |-> newlow /\ DropAlert(old_price, final_price)]

\* the lower of two prices, either of which may be absent
Lower(a, b) == IF a = None THEN b ELSE IF b = None \/ a < b THEN a ELSE b

\* AfterProduct with save_products indented into the for loop
AfterProductSaveEach(i, n) == "save"

\* lines 99 / 120: where the loop stands after product i of n
AfterProduct(i, n) == IF i = n THEN "save" ELSE "scan"

\* SweepStep that leaves the for loop at the first failed scrape
SweepStepBreak ==
    /\ sweep.pc = "scan"
    /\ \E out \in ScrapeOutcomes, tg \in TelegramOutcomes :
         LET i == sweep.idx
             product == sweep.products[i]
             r == UpdateProduct(product, out[1], out[2])
             id == product.id
             raised == r.notified /\ send_telegram(tg) = "raised"
         IN  /\ ~r.notified => tg = "sent"
             /\ sweep' =
                   [sweep EXCEPT
                       !.products[i] = r.product,
                       !.idx = i + 1,
                       !.skipped = IF out[1] = None
                                   THEN @ \cup {<<i, product>>} ELSE @,
                       !.pc = IF raised THEN "crashed"
                              ELSE IF out[1] = None THEN "save"
                              ELSE AfterProduct(i, Len(sweep.products)),
                       !.obs = IF track
                               THEN Append(@, <<out[1], out[2], r.notified>>)
                               ELSE @,
                       !.step = [id |-> id, old |-> product.current_price,
                                 new |-> out[1], low |-> product.lowest_price,
                                 seen |-> seen[id], notified |-> r.notified,
                                 tg |-> IF r.notified THEN Delivery(tg)
                                        ELSE "none"]]
             /\ seen' = IF track /\ out[1] # None
                        THEN [seen EXCEPT ![id] = out[1]] ELSE seen
             /\ least' = IF track
                         THEN [least EXCEPT ![id] = Lower(@, out[1])] ELSE least
    /\ UNCHANGED <<file, persisted, hs, nextId, track, deleted, limit>>

\* lines 99-119: one iteration of the for loop
SweepStep ==
    /\ sweep.pc = "scan"
    /\ \E out \in ScrapeOutcomes, tg \in TelegramOutcomes :
         LET i == sweep.idx
             product == sweep.products[i]
             r == UpdateProduct(product, out[1], out[2])
             id == product.id
             raised == r.notified /\ send_telegram(tg) = "raised"
         IN  /\ ~r.notified => tg = "sent"
             /\ sweep' =
                   [sweep EXCEPT
                       !.products[i] = r.product,
                       !.idx = i + 1,
                       !.skipped = IF out[1] = None
                                   THEN @ \cup {<<i, product>>} ELSE @,
                       !.pc = IF raised THEN "crashed"
                              ELSE AfterProduct(i, Len(sweep.products)),
                       !.obs = IF track
                               THEN Append(@, <<out[1], out[2], r.notified>>)
                               ELSE @,
                       !.step = [id |-> id, old |-> product.current_price,
                                 new |-> out[1], low |-> product.lowest_price,
                                 seen |-> seen[id], notified |-> r.notified,
                                 tg |-> IF r.notified THEN Delivery(tg)
                                        ELSE "none"]]
             /\ seen' = IF track /\ out[1] # None
                        THEN [seen EXCEPT ![id] = out[1]] ELSE seen
             /\ least' = IF track
                         THEN [least EXCEPT ![id] = Lower(@, out[1])] ELSE least
    /\ UNCHANGED <<file, persisted, hs, nextId, track, deleted, limit>>

\* line 120 / 40: open(PRICE_DATA_FILE, "w") truncates the file
SweepSaveOpen ==
    /\ sweep.pc = "save"
    /\ file' = Truncated
    /\ sweep' = [sweep EXCEPT !.pc = "write", !.step = NoStep,
                              !.saves = @ + 1]
    /\ UNCHANGED <<persisted, hs, nextId, seen, track, deleted, least, limit>>

\* line 120 / 40: open raises (OSError); nothing in the loop catches it
SweepSaveFail ==
    /\ sweep.pc = "save"
    /\ sweep' = [sweep EXCEPT !.pc = "crashed", !.step = NoStep,
                              !.saves = @ + 1]
    /\ UNCHANGED <<file, persisted, hs, nextId, seen, track, deleted, least, limit>>

\* line 120 / 41: json.dump and close
SweepSaveWrite ==
    /\ sweep.pc = "write"
    /\ \E f \in WriteOutcomes(file, sweep.products) :
         /\ file' = f
         /\ persisted' = IF track /\ f.ok THEN f.data ELSE persisted
    /\ sweep' = [IdleSweep EXCEPT !.pc = "sleep", !.loads = sweep.loads,
                                  !.saves = sweep.saves]
    /\ UNCHANGED <<hs, nextId, seen, track, deleted, least, limit>>

\* line 122: time.sleep(CHECK_INTERVAL), then the next iteration of while True
SweepSleep ==
    /\ sweep.pc = "sleep"
    /\ sweep' = IdleSweep
    /\ UNCHANGED <<file, persisted, hs, nextId, seen, track, deleted, least, limit>>

\* ------------------------------------------------------------ add_product
\* lines 141-148: the record built from the immediate scrape
NewProduct(id, url, price, name) ==
    [id |-> id, url |-> url,
     product_name |-> IF name = NoName THEN Unknown ELSE name,
     current_price |-> price,
     lowest_price |-> price,
     last_check |-> IF Truthy(price) THEN Stamp ELSE NoStamp]

\* lines 133-135: an empty url redirects at once
AddEmpty(h) ==
    /\ hs[h].pc = "idle"
    /\ hs' = [hs EXCEPT ![h] = [IdleHandler EXCEPT !.pc = "done", !.op = "add"]]
    /\ UNCHANGED <<file, persisted, sweep, nextId, seen, track, deleted, least, limit>>

\* lines 138-151: scrape, build the record, load the list, append
AddLoad(h) ==
    /\ hs[h].pc = "idle"
    /\ nextId < limit
    /\ \E out \in ScrapeOutcomes :
         LET id == nextId + 1
             new_product == NewProduct(id, "u", out[1], out[2])
             loaded == load_products(file)
         IN  /\ hs' = [hs EXCEPT ![h] =
                          [IdleHandler EXCEPT
                              !.pc = "save", !.op = "add", !.url = "u",
                              !.price = out[1],
                              !.new_product = <<new_product>>,
                              !.loaded = loaded,
                              !.products = Append(loaded, new_product),
                              !.torn = ~file.ok]]
             /\ seen' = IF track THEN [seen EXCEPT ![id] = out[1]] ELSE seen
             /\ least' = IF track THEN [least EXCEPT ![id] = out[1]] ELSE least
    /\ nextId' = nextId + 1
    /\ UNCHANGED <<file, persisted, sweep, track, deleted, limit>>

\* AddNotifies with the truthiness test of line 147
AddNotifiesTruthy(price) == Truthy(price)

\* lines 155-161: the "new product added" message
AddNotifies(price) == price # None

\* lines 154-163: the message, then the redirect
AddNotify(h) ==
    /\ hs[h].pc = "notify"
    /\ \E tg \in TelegramOutcomes :
         LET notified == AddNotifies(hs[h].price)
             raised == notified /\ send_telegram(tg) = "raised"
         IN  /\ ~notified => tg = "sent"
             /\ hs' = [hs EXCEPT
                          ![h].pc = IF raised THEN "error" ELSE "done",
                          ![h].notified = notified,
                          ![h].tg = IF notified THEN Delivery(tg) ELSE "none"]
    /\ UNCHANGED <<file, persisted, sweep, nextId, seen, track, deleted, least, limit>>

\* --------------------------------------------------------- delete_product
\* Remove that drops the first record when the id matches nothing
RemoveOrPop(products, product_id) ==
    LET F[i \in 0..Len(products)] ==
            IF i = 0 THEN <<>>
            ELSE IF products[i].id # product_id
                 THEN Append(F[i - 1], products[i]) ELSE F[i - 1]
    IN  IF product_id \in IdsOf(products) \/ Len(products) = 0
        THEN F[Len(products)] ELSE Tail(products)

\* line 169: [p for p in products if p["id"] != product_id]
Remove(products, product_id) ==
    LET F[i \in 0..Len(products)] ==
            IF i = 0 THEN <<>>
            ELSE IF products[i].id # product_id
                 THEN Append(F[i - 1], products[i]) ELSE F[i - 1]
    IN  F[Len(products)]

\* lines 168-169: load the list and filter the id out
DeleteLoad(h) ==
    /\ hs[h].pc = "idle"
    /\ \E product_id \in DelIds :
         LET loaded == load_products(file)
         IN  hs' = [hs EXCEPT ![h] =
                       [IdleHandler EXCEPT
                           !.pc = "save", !.op = "delete",
                           !.product_id = product_id,
                           !.loaded = loaded,
                           !.products = Remove(loaded, product_id),
                           !.torn = ~file.ok]]
    /\ UNCHANGED <<file, persisted, sweep, nextId, seen, track, deleted, least, limit>>

\* ------------------------------------- save_products in a request thread
\* line 40: open(PRICE_DATA_FILE, "w") truncates the file
HandlerSaveOpen(h) ==
    /\ hs[h].pc = "save"
    /\ file' = Truncated
    /\ hs' = [hs EXCEPT ![h].pc = "write"]
    /\ UNCHANGED <<persisted, sweep, nextId, seen, track, deleted, least, limit>>

\* line 40: open raises; Flask answers 500 and the handler ends
HandlerSaveFail(h) ==
    /\ hs[h].pc = "save"
    /\ hs' = [hs EXCEPT ![h].pc = "error"]
    /\ UNCHANGED <<file, persisted, sweep, nextId, seen, track, deleted, least, limit>>

\* line 41: json.dump and close
HandlerSaveWrite(h) ==
    /\ hs[h].pc = "write"
    /\ \E f \in WriteOutcomes(file, hs[h].products) :
         /\ file' = f
         /\ persisted' = IF track /\ f.ok THEN f.data ELSE persisted
    /\ hs' = [hs EXCEPT ![h].pc = IF hs[h].op = "add" THEN "notify" ELSE "done",
                        ![h].saved = TRUE]
    /\ UNCHANGED <<sweep, nextId, seen, track, deleted, least, limit>>

\* lines 163 / 171 / 135: the redirect; the thread is free for the next request
HandlerReturn(h) ==
    /\ hs[h].pc \in {"done", "error"}
    /\ hs' = [hs EXCEPT ![h] = IdleHandler]
    /\ deleted' = IF /\ track
                     /\ hs[h].op = "delete" /\ hs[h].pc = "done"
                     /\ hs[h].product_id \in IdsOf(hs[h].loaded)
                  THEN deleted \cup {hs[h].product_id} ELSE deleted
    /\ UNCHANGED <<file, persisted, sweep, nextId, seen, track, least, limit>>

\* ---------------------------------------------------------- specification
Next ==
    \/ SweepLoad
    \/ SweepStep
    \/ SweepSaveOpen
    \/ SweepSaveFail
    \/ SweepSaveWrite
    \/ SweepSleep
    \/ \E h \in Alongside : AddEmpty(h)
    \/ \E h \in Alongside : AddLoad(h)
    \/ \E h \in Alongside : AddNotify(h)
    \/ \E h \in Alongside : DeleteLoad(h)
    \/ \E h \in Alongside : HandlerSaveOpen(h)
    \/ \E h \in Alongside : HandlerSaveFail(h)
    \/ \E h \in Alongside : HandlerSaveWrite(h)
    \/ \E h \in Alongside : HandlerReturn(h)

Spec == Init /\ [][Next]_vars

SpecTracked == InitTracked /\ [][Next]_vars

\* sweeps and requests one after the other: a request starts only between
\* two sweeps, a sweep moves only while no request is being served
Quiet == \A h \in Handlers : hs[h].pc = "idle"
AtRest == sweep.pc \in {"load", "sleep", "crashed", "off"}

NextSeq ==
    \/ Quiet /\ SweepLoad
    \/ Quiet /\ SweepStep
    \/ Quiet /\ SweepSaveOpen
    \/ Quiet /\ SweepSaveFail
    \/ Quiet /\ SweepSaveWrite
    \/ Quiet /\ SweepSleep
    \/ AtRest /\ \E h \in Alongside : AddEmpty(h)
    \/ AtRest /\ \E h \in Alongside : AddLoad(h)
    \/ \E h \in Alongside : AddNotify(h)
    \/ AtRest /\ \E h \in Alongside : DeleteLoad(h)
    \/ \E h \in Alongside : HandlerSaveOpen(h)
    \/ \E h \in Alongside : HandlerSaveFail(h)
    \/ \E h \in Alongside : HandlerSaveWrite(h)
    \/ \E h \in Alongside : HandlerReturn(h)

SpecSeq == InitSeq /\ [][NextSeq]_vars

\* the request threads among themselves, no sweep thread
NextRequests ==
    \/ \E h \in Handlers : AddEmpty(h)
    \/ \E h \in Handlers : AddLoad(h)
    \/ \E h \in Handlers : AddNotify(h)
    \/ \E h \in Handlers : DeleteLoad(h)
    \/ \E h \in Handlers : HandlerSaveOpen(h)
    \/ \E h \in Handlers : HandlerSaveFail(h)
    \/ \E h \in Handlers : HandlerSaveWrite(h)
    \/ \E h \in Handlers : HandlerReturn(h)

SpecRequests == InitRequests /\ [][NextRequests]_vars

\* ------------------------------------------------------------ properties
Stepped == sweep.step.id # 0

\* C1: in every iteration of the sweep a drop alert is sent if and only if
\* the scrape gave a price strictly below the current_price the record held.
C1_AlertIffBelowPrevious ==
    Stepped =>
        (sweep.step.notified <=>
            /\ sweep.step.new # None
            /\ sweep.step.old # None
            /\ sweep.step.new < sweep.step.old)

\* C2: one decrease of a product's scraped price gives one alert; a sweep
\* that scrapes the price already scraped last time (or a higher one) for
\* that product sends no further alert, whatever the requests in between.
C2_NoSecondAlert ==
    Stepped /\ sweep.step.notified =>
        /\ sweep.step.seen # None
        /\ sweep.step.new < sweep.step.seen

\* C3: a drop alert is sent only when the scrape gave a price and the record
\* held a current_price strictly above it: never on a first observation,
\* never for an equal or higher price, never after a failed scrape.
C3_AlertOnlyBelowPrevious ==
    Stepped /\ sweep.step.notified =>
        /\ sweep.step.new # None
        /\ sweep.step.old # None
        /\ sweep.step.new < sweep.step.old

C3_Witness == Stepped /\ sweep.step.notified /\ sweep.step.old = MaxPrice

\* C4: from one complete products.json to the next, the lowest_price of an id
\* present in both never increases.
C4_LowestNeverIncreases ==
    [][\A i \in 1..Len(persisted), j \in 1..Len(persisted') :
          persisted[i].id = persisted'[j].id /\ persisted[i].lowest_price # None
              => /\ persisted'[j].lowest_price # None
                 /\ persisted'[j].lowest_price <= persisted[i].lowest_price]_vars

\* C5: a product whose scrape gave no price in this sweep is, in the list
\* the sweep saves, the record the sweep loaded: price, lowest price,
\* timestamp and name unchanged.
C5_FailedScrapeKeepsRecord ==
    \A e \in sweep.skipped : sweep.products[e[1]] = e[2]

C5_Witness ==
    /\ sweep.pc = "write"
    /\ \E e \in sweep.skipped : e[2].current_price # None /\ e[2].last_check # NoStamp

\* C6: no load_products sees products.json while a save_products has it
\* truncated or half written.
C6_LoadNeverTorn ==
    ~sweep.torn /\ \A h \in Handlers : ~hs[h].torn

\* C7: the loop of update_all_products never ends.
C7_SweepLoopRuns == sweep.pc # "crashed"

\* C8: delete_product with an id that is not in the list it loaded saves
\* that list unchanged.
C8_DeleteMissingIsNoOp ==
    \A h \in Handlers :
        hs[h].op = "delete" /\ hs[h].product_id \notin IdsOf(hs[h].loaded)
            => hs[h].products = hs[h].loaded

C8_Witness ==
    \E h \in Handlers :
        /\ hs[h].op = "delete" /\ hs[h].pc = "done" /\ hs[h].saved
        /\ hs[h].product_id \notin IdsOf(hs[h].loaded)
        /\ Len(hs[h].loaded) > 0

\* C9: add_product with a url saves the loaded list plus one record whose
\* current_price and lowest_price are the scraped price and whose last_check
\* is set exactly when a price was scraped.
C9_AddedRecord ==
    \A h \in Handlers :
        hs[h].op = "add" /\ hs[h].url # "" =>
            LET new_product == hs[h].new_product[1]
            IN  /\ hs[h].products = Append(hs[h].loaded, new_product)
                /\ new_product.current_price = hs[h].price
                /\ new_product.lowest_price = hs[h].price
                /\ (new_product.last_check # NoStamp <=> hs[h].price # None)

\* C10: add_product sends its "new product" message exactly when the scrape
\* gave a price, only once save_products has returned, and with an empty url
\* sends nothing and saves nothing.
C10_AddNotification ==
    \A h \in Handlers :
        hs[h].op = "add" =>
            /\ hs[h].pc = "done" /\ hs[h].url # ""
                   => (hs[h].notified <=> hs[h].price # None)
            /\ hs[h].notified => hs[h].saved
            /\ hs[h].url = "" => ~hs[h].notified /\ ~hs[h].saved

C10_Witness ==
    \E h \in Handlers :
        /\ hs[h].op = "add" /\ hs[h].pc = "done"
        /\ hs[h].notified /\ hs[h].saved /\ hs[h].price = 0

C12_OneLoadOneSave ==
    /\ sweep.pc = "load" => sweep.loads = 0 /\ sweep.saves = 0
    /\ sweep.pc = "scan" =>
           sweep.loads = 1 /\ sweep.saves = 0 /\ sweep.idx <= Len(sweep.products)
    /\ sweep.pc = "save" =>
           sweep.loads = 1 /\ sweep.saves = 0 /\ sweep.idx = Len(sweep.products) + 1
    /\ sweep.pc = "write" =>
           sweep.loads = 1 /\ sweep.saves = 1 /\ sweep.idx = Len(sweep.products) + 1
    /\ sweep.pc = "sleep" => sweep.loads = 1 /\ sweep.saves = 1

C12_Witness ==
    sweep.pc = "write" /\ Len(sweep.products) >= 2 /\ sweep.saves = 1

\* C13: the last full save wins: a save_products that leaves a readable
\* file leaves exactly the saving thread's own list in it, whatever another
\* thread saved since that list was loaded.
C13_LastSaveWins ==
    [][/\ sweep.pc = "write" /\ sweep'.pc = "sleep" /\ file'.ok
              => file'.data = sweep.products
       /\ \A h \in Handlers :
              hs[h].pc = "write" /\ hs'[h].pc # "write" /\ file'.ok
                  => file'.data = hs[h].products]_vars

\* an add_product has saved its record, the sweep that had loaded before
\* has saved after, and the record is gone without any error
C13_Witness ==
    /\ sweep.pc = "sleep" /\ file.ok
    /\ \E h \in Handlers :
           /\ hs[h].op = "add" /\ hs[h].saved /\ hs[h].pc \in {"notify", "done"}
           /\ hs[h].new_product[1].id \notin IdsOf(file.data)

\* C14: a product whose delete_product has completed is in no readable
\* products.json from then on.
C14_DeletedStaysGone ==
    file.ok => deleted \cap IdsOf(file.data) = {}

\* C15: between sweeps and requests that do not overlap, every stored
\* product's lowest_price is the lowest price ever scraped for it, and is
\* absent exactly when its current_price is.
C15_LowestIsMinimum ==
    Quiet /\ AtRest /\ file.ok =>
        \A i \in 1..Len(file.data) :
            /\ file.data[i].lowest_price = least[file.data[i].id]
            /\ file.data[i].lowest_price = None
                   <=> file.data[i].current_price = None

\* C16: in a sweep every product is the result of its own scrape applied
\* to its own loaded record, alert included; a product not yet reached is as
\* loaded; at the save every product has had its scrape.
C16_ProductsIndependent ==
    sweep.pc \in {"scan", "save", "write"} =>
        /\ Len(sweep.obs) = sweep.idx - 1
        /\ sweep.pc \in {"save", "write"} => Len(sweep.obs) = Len(sweep.products)
        /\ \A j \in 1..Len(sweep.products) :
               IF j <= Len(sweep.obs)
               THEN LET r == UpdateProduct(sweep.loaded[j],
                                           sweep.obs[j][1], sweep.obs[j][2])
                    IN  /\ sweep.products[j] = r.product
                        /\ sweep.obs[j][3] = r.notified
               ELSE sweep.products[j] = sweep.loaded[j]

\* a failed scrape of the first product, then a drop alert for the second
C16_Witness ==
    /\ sweep.pc = "write" /\ Len(sweep.obs) >= 2
    /\ sweep.obs[1][1] = None
    /\ sweep.obs[2][3]

\* C17: a drop alert of a sweep goes out only for a new lowest price: the
\* scraped price is below the lowest_price the sweep loaded (or there was
\* none), and the record's lowest_price becomes the scraped price.
C17_AlertMeansNewLow ==
    Stepped /\ sweep.step.notified =>
        /\ sweep.step.low = None \/ sweep.step.new < sweep.step.low
        /\ sweep.products[sweep.idx - 1].lowest_price = sweep.step.new

C17_Witness ==
    /\ Stepped /\ sweep.step.notified
    /\ sweep.step.low = MaxPrice /\ sweep.step.new = 0

\* C18: from one complete products.json to the next, an id present in both
\* with a current_price keeps having one.
C18_PriceNeverErased ==
    [][\A i \in 1..Len(persisted), j \in 1..Len(persisted') :
          persisted[i].id = persisted'[j].id /\ persisted[i].current_price # None
              => persisted'[j].current_price # None]_vars

\* C19: when two add_product requests have both completed, both new
\* products are in products.json.
C19_BothAddsKept ==
    \A g, h \in Handlers :
        /\ g # h
        /\ hs[g].op = "add" /\ hs[g].pc = "done" /\ hs[g].saved
        /\ hs[h].op = "add" /\ hs[h].pc = "done" /\ hs[h].saved
        => /\ file.ok
           /\ hs[g].new_product[1].id \in IdsOf(file.data)
           /\ hs[h].new_product[1].id \in IdsOf(file.data)

====
